---- MODULE Spec2Model ----
(***************************************************************************)
(* Tourism recommendation system (src/app.py): the attraction Store built  *)
(* at startup, the scorer and recommender (calculate_score,                *)
(* get_recommendations, _get_score_breakdown), the itinerary planner       *)
(* (optimize_itinerary) and the two request handlers that call them.       *)
(*                                                                         *)
(* Number representation.  Ratings are kept in tenths (4.5 is 45), hours   *)
(* in tenths of an hour (1.5 h is 15) and scores in hundredths (25 points  *)
(* is 2500), so that round(x, 2) and round(x, 1) are operations on exact   *)
(* quantities.  A score before rounding is the exact fraction num / den of *)
(* hundredths, den being log10(max_review_count + 1) in thousandths.       *)
(***************************************************************************)
EXTENDS Integers, Sequences, FiniteSets, TLC

\* attractions       the Store: TourismRecommender.attractions
\* max_review_count  TourismRecommender.max_review_count
\* request           the request being handled, NoRequest between requests
\* response          what the handler answers: the status, the error message
\*                   and the recommendations or the plan
VARIABLES attractions, max_review_count, request, response

vars == <<attractions, max_review_count, request, response>>

----------------------------------------------------------------------------
(* Bounds of the model *)

\* rows of the CSV file before replication
MaxStore == 2
\* a CSV file is a block of rows, written once or Reps times
Reps == 11
\* attraction ids a selection payload may name are 1 .. MaxSel
MaxSel == 5
\* the day count of a selection payload is -1 .. MaxDays
MaxDays == 2

----------------------------------------------------------------------------
(* Python values of a JSON payload: a missing key, null, a string, a number *)
(* or a list of strings.                                                    *)

Absent == [t |-> "absent", s |-> "", n |-> 0, l |-> <<>>]
None == [t |-> "none", s |-> "", n |-> 0, l |-> <<>>]
PyStr(x) == [t |-> "str", s |-> x, n |-> 0, l |-> <<>>]
PyNum(x) == [t |-> "num", s |-> "", n |-> x, l |-> <<>>]
PyList(q) == [t |-> "list", s |-> "", n |-> 0, l |-> q]

\* dict.get(key): None for a missing key
Get(v) == IF v.t = "absent" THEN None ELSE v

\* dict.get(key, default)
GetDefault(v, d) == IF v.t = "absent" THEN d ELSE v

\* truth value of a Python object
Truthy(v) ==
    CASE v.t = "str" -> v.s # ""
      [] v.t = "num" -> v.n # 0
      [] v.t = "list" -> v.l # <<>>
      [] OTHER -> FALSE

\* str.lower() on the strings of the model
Lower(s) ==
    CASE s = "Paris" -> "paris"
      [] s = "PARIS" -> "paris"
      [] s = "Rome" -> "rome"
      [] s = "Nice" -> "nice"
      [] s = "France" -> "france"
      [] s = "Italy" -> "italy"
      [] s = "Museums" -> "museums"
      [] s = "Food" -> "food"
      [] s = "Ruins" -> "ruins"
      [] OTHER -> s

\* str(x) of a payload value
Str(v) ==
    CASE v.t = "str" -> v.s
      [] v.t = "num" /\ v.n = 7 -> "7"
      [] v.t = "none" -> "None"
      [] OTHER -> "<object>"

\* order of Python strings (by code point) on the city names of the model
CityRank(c) ==
    CASE c = "Nice" -> 1
      [] c = "Paris" -> 2
      [] c = "Rome" -> 3
      [] OTHER -> 4

\* log10(n) in thousandths, for the values review_count + 1 takes
Log10(n) ==
    CASE n = 2 -> 301
      [] n = 10 -> 1000
      [] n = 100000 -> 5000
      [] n = 150000 -> 5176
      [] n = 1000000 -> 6000

\* round(num / den) to the nearest integer, ties to even
Round(num, den) ==
    LET q == num \div den
        r == num % den
    IN  IF 2 * r < den THEN q
        ELSE IF 2 * r > den THEN q + 1
        ELSE IF q % 2 = 0 THEN q ELSE q + 1

Min(a, b) == IF a < b THEN a ELSE b

Max(a, b) == IF a > b THEN a ELSE b

RECURSIVE SetMax(_)
SetMax(S) ==
    LET x == CHOOSE y \in S : TRUE
    IN  IF S = {x} THEN x ELSE Max(x, SetMax(S \ {x}))

----------------------------------------------------------------------------
(* The data set and its loading                                            *)

\* rows of the CSV file, numbers parsed and the categories column split;
\* the last row has no rating and no reviews
CsvRows ==
    { [place_name |-> "Louvre", city |-> "Paris", country |-> "France",
       rating |-> 48, review_count |-> 999999, categories |-> <<"Museums", "Food">>],
      [place_name |-> "Pantheon", city |-> "Rome", country |-> "Italy",
       rating |-> 40, review_count |-> 149999, categories |-> <<"temples">>],
      [place_name |-> "Promenade", city |-> "Nice", country |-> "France",
       rating |-> 35, review_count |-> 9, categories |-> <<"beaches">>],
      [place_name |-> "Forum", city |-> "Rome", country |-> "Italy",
       rating |-> 45, review_count |-> 99999, categories |-> <<"Ruins", "parks">>],
      [place_name |-> "Unknown", city |-> "Paris", country |-> "France",
       rating |-> 0, review_count |-> 0, categories |-> <<>>] }

RECURSIVE Repeat(_, _)
Repeat(block, k) == IF k = 0 THEN <<>> ELSE block \o Repeat(block, k - 1)

\* the CSV files the process may be started on
CsvFiles ==
    { Repeat(block, k) :
        block \in UNION { [1..n -> CsvRows] : n \in 0..MaxStore }, k \in {1, Reps} }

\* load_and_process_data: ids by row, rows without rating or reviews dropped,
\* categories lower-cased and de-duplicated
load_and_process_data(rows) ==
    LET rec(i) ==
            [id |-> i, place_name |-> rows[i].place_name, city |-> rows[i].city,
             country |-> rows[i].country, rating |-> rows[i].rating,
             review_count |-> rows[i].review_count,
             categories_list |->
                 { Lower(rows[i].categories[j]) : j \in 1..Len(rows[i].categories) }]
        all == [i \in 1..Len(rows) |-> rec(i)]
    IN  SelectSeq(all, LAMBDA a : a.rating > 0 /\ a.review_count > 0)

\* TourismRecommender.__init__: max_review_count
MaxReviewCount(atts) ==
    IF atts = <<>> THEN 1 ELSE SetMax({ atts[i].review_count : i \in 1..Len(atts) })

----------------------------------------------------------------------------
(* Outcome of a call: a returned value, or an exception propagating out    *)

Return(v) == [exc |-> "", value |-> v]

Raise(e) == [exc |-> e, value |-> <<>>]

----------------------------------------------------------------------------
(* TourismRecommender.calculate_score                                      *)

\* base score, as a numerator over Log10(max_review_count + 1)
ScoreBase(attraction) ==
    attraction.rating * 80 * Log10(max_review_count + 1)
        + 2000 * Log10(attraction.review_count + 1)

\* location matching bonus
ScoreLocation(attraction, preferences) ==
    (IF Truthy(Get(preferences.city))
           /\ Lower(attraction.city) = Lower(Str(preferences.city))
     THEN 2500 ELSE 0)
    + (IF Truthy(Get(preferences.country))
           /\ Lower(attraction.country) = Lower(Str(preferences.country))
       THEN 1500 ELSE 0)

\* set([cat.lower() for cat in preferences['categories']]), of a list
UserCats(categories) == { Lower(categories.l[j]) : j \in 1..Len(categories.l) }

\* category matching bonus; len() of a number raises
ScoreCategories(attraction, preferences) ==
    LET categories == Get(preferences.categories)
    IN  IF ~Truthy(categories) THEN Return(0)
        ELSE IF categories.t # "list" THEN Raise("TypeError")
        ELSE LET attraction_cats == { Lower(c) : c \in attraction.categories_list }
                 user_cats == UserCats(categories)
                 matching_cats == attraction_cats \cap user_cats
             IN  IF matching_cats = {} THEN Return(0)
                 ELSE Return(Cardinality(matching_cats) * 1000
                             + (IF Cardinality(matching_cats) = Cardinality(user_cats)
                                THEN 500 ELSE 0))

\* the bonus of the rating threshold branch
ScoreQuality(attraction) ==
    IF attraction.rating >= 45 THEN 1000
    ELSE IF attraction.rating >= 40 THEN 500 ELSE 0

\* review count popularity bonus
ScorePopularity(attraction) ==
    IF attraction.review_count >= 200000 THEN 1000
    ELSE IF attraction.review_count >= 100000 THEN 500 ELSE 0

\* a below-threshold rating only loses the quality bonus
calculate_score_penalty(attraction, preferences) ==
    LET den == Log10(max_review_count + 1)
        cat == ScoreCategories(attraction, preferences)
        min_rating == GetDefault(preferences.min_rating, PyNum(0))
        score == ScoreBase(attraction)
                 + den * (ScoreLocation(attraction, preferences) + cat.value
                          + (IF attraction.rating >= min_rating.n
                             THEN ScoreQuality(attraction) ELSE 0)
                          + ScorePopularity(attraction))
    IN  IF cat.exc # "" THEN cat
        ELSE IF min_rating.t # "num" THEN Raise("TypeError")
        ELSE Return([num |-> Min(10000 * den, Max(0, score)), den |-> den])

\* calculate_score: the score in hundredths as the fraction num / den;
\* comparing the rating with None or with a string raises
calculate_score(attraction, preferences) ==
    LET den == Log10(max_review_count + 1)
        cat == ScoreCategories(attraction, preferences)
        min_rating == GetDefault(preferences.min_rating, PyNum(0))
        score == ScoreBase(attraction)
                 + den * (ScoreLocation(attraction, preferences) + cat.value
                          + ScoreQuality(attraction) + ScorePopularity(attraction))
    IN  IF cat.exc # "" THEN cat
        ELSE IF min_rating.t # "num" THEN Raise("TypeError")
        ELSE IF attraction.rating >= min_rating.n
             THEN Return([num |-> Min(10000 * den, Max(0, score)), den |-> den])
             ELSE Return([num |-> 0, den |-> den])

----------------------------------------------------------------------------
(* TourismRecommender._get_score_breakdown                                 *)

\* the perfect-match bonus left out of the category bonus
breakdown_no_perfect(attraction, preferences) ==
    LET den == Log10(max_review_count + 1)
        cats == Get(preferences.categories)
        matching == IF Truthy(cats)
                    THEN { Lower(c) : c \in attraction.categories_list }
                             \cap { Lower(cats.l[j]) : j \in 1..Len(cats.l) }
                    ELSE {}
    IN  [base_score |->
             Round(attraction.rating * 80 * den
                       + 2000 * Log10(attraction.review_count + 1), den),
         location_bonus |->
             (IF Truthy(Get(preferences.city))
                    /\ Lower(attraction.city) = Lower(Str(preferences.city))
              THEN 2500 ELSE 0)
             + (IF Truthy(Get(preferences.country))
                    /\ Lower(attraction.country) = Lower(Str(preferences.country))
                THEN 1500 ELSE 0),
         category_bonus |-> Cardinality(matching) * 1000,
         quality_bonus |->
             IF attraction.rating >= 45 THEN 1000
             ELSE IF attraction.rating >= 40 THEN 500 ELSE 0,
         popularity_bonus |->
             IF attraction.review_count >= 200000 THEN 1000
             ELSE IF attraction.review_count >= 100000 THEN 500 ELSE 0]

\* _get_score_breakdown; it is called only after calculate_score returned,
\* so preferences['categories'] is a list whenever it is true
_get_score_breakdown(attraction, preferences) ==
    LET den == Log10(max_review_count + 1)
        cats == Get(preferences.categories)
        user == IF Truthy(cats)
                THEN { Lower(cats.l[j]) : j \in 1..Len(cats.l) } ELSE {}
        matching == { Lower(c) : c \in attraction.categories_list } \cap user
    IN  [base_score |->
             Round(attraction.rating * 80 * den
                       + 2000 * Log10(attraction.review_count + 1), den),
         location_bonus |->
             (IF Truthy(Get(preferences.city))
                    /\ Lower(attraction.city) = Lower(Str(preferences.city))
              THEN 2500 ELSE 0)
             + (IF Truthy(Get(preferences.country))
                    /\ Lower(attraction.country) = Lower(Str(preferences.country))
                THEN 1500 ELSE 0),
         category_bonus |->
             IF matching = {} THEN 0
             ELSE Cardinality(matching) * 1000
                  + (IF Cardinality(matching) = Cardinality(user) THEN 500 ELSE 0),
         quality_bonus |->
             IF attraction.rating >= 45 THEN 1000
             ELSE IF attraction.rating >= 40 THEN 500 ELSE 0,
         popularity_bonus |->
             IF attraction.review_count >= 200000 THEN 1000
             ELSE IF attraction.review_count >= 100000 THEN 500 ELSE 0]

----------------------------------------------------------------------------
(* TourismRecommender.get_recommendations                                  *)

\* the city and country filters: FALSE when the attraction is skipped
PassesFilters(att, preferences) ==
    /\ (Truthy(Get(preferences.city)) /\ preferences.city # PyStr("any"))
           => Lower(att.city) = Lower(Str(preferences.city))
    /\ (Truthy(Get(preferences.country)) /\ preferences.country # PyStr("any"))
           => Lower(att.country) = Lower(Str(preferences.country))

\* if score > 0
KeepScored(score) == score.num > 0

\* the copy of an attraction appended to scored_attractions
AttCopy(att, score, preferences) ==
    [id |-> att.id, place_name |-> att.place_name, city |-> att.city,
     country |-> att.country, rating |-> att.rating,
     review_count |-> att.review_count, categories |-> att.categories_list,
     score |-> Round(score.num, score.den),
     score_breakdown |-> _get_score_breakdown(att, preferences)]

\* the loop over self.attractions, from index i on
RECURSIVE ScoreLoop(_, _, _)
ScoreLoop(i, preferences, scored_attractions) ==
    IF i > Len(attractions) THEN Return(scored_attractions)
    ELSE LET att == attractions[i]
         IN  IF ~PassesFilters(att, preferences)
             THEN ScoreLoop(i + 1, preferences, scored_attractions)
             ELSE LET score == calculate_score(att, preferences)
                  IN  IF score.exc # "" THEN score
                      ELSE IF KeepScored(score.value)
                      THEN ScoreLoop(i + 1, preferences,
                               Append(scored_attractions,
                                      AttCopy(att, score.value, preferences)))
                      ELSE ScoreLoop(i + 1, preferences, scored_attractions)

\* x put into a list sorted by descending score, after its equals
RECURSIVE InsertDesc(_, _)
InsertDesc(sorted, x) ==
    IF sorted = <<>> THEN <<x>>
    ELSE IF Head(sorted).score >= x.score
         THEN <<Head(sorted)>> \o InsertDesc(Tail(sorted), x)
         ELSE <<x>> \o sorted

\* x put into a list sorted by descending score, before its equals
RECURSIVE InsertDescFirst(_, _)
InsertDescFirst(sorted, x) ==
    IF sorted = <<>> THEN <<x>>
    ELSE IF Head(sorted).score > x.score
         THEN <<Head(sorted)>> \o InsertDescFirst(Tail(sorted), x)
         ELSE <<x>> \o sorted

RECURSIVE SortDescFirstInto(_, _)
SortDescFirstInto(list, acc) ==
    IF list = <<>> THEN acc
    ELSE SortDescFirstInto(Tail(list), InsertDescFirst(acc, Head(list)))

\* sorted ascending and then reversed: equal scores end in reverse order
SortByScore_reversed(list) == SortDescFirstInto(list, <<>>)

\* the elements of list put one by one into the sorted list acc
RECURSIVE SortDescInto(_, _)
SortDescInto(list, acc) ==
    IF list = <<>> THEN acc
    ELSE SortDescInto(Tail(list), InsertDesc(acc, Head(list)))

\* list.sort(key=score, reverse=True): descending, equal scores keep their order
SortByScore(list) == SortDescInto(list, <<>>)

\* list[:limit]
Slice(list, limit) ==
    IF limit >= 0 THEN SubSeq(list, 1, Min(limit, Len(list)))
    ELSE SubSeq(list, 1, Max(0, Len(list) + limit))

get_recommendations(preferences, limit) ==
    LET scored == ScoreLoop(1, preferences, <<>>)
    IN  IF scored.exc # "" THEN scored
        ELSE Return(Slice(SortByScore(scored.value), limit))

\* the limit passed on as it came
ClampLimit_none(limit) == limit

\* min(max(1, int(limit)), 20)
ClampLimit(limit) == Min(Max(1, limit), 20)

----------------------------------------------------------------------------
(* Responses of the handlers                                               *)

NoPlan ==
    [itinerary |-> <<>>, total_days |-> 0, total_attractions |-> 0,
     cities_visited |-> <<>>]

Response(status, error, recommendations, plan) ==
    [status |-> status, error |-> error, recommendations |-> recommendations,
     plan |-> plan]

NoResponse == Response(0, "", <<>>, NoPlan)

\* the handler of /api/recommend
recommend(preferences) ==
    LET limit == GetDefault(preferences.limit, PyNum(10))
    IN  IF limit.t # "num" THEN Response(400, "TypeError", <<>>, NoPlan)
        ELSE LET recommendations ==
                     get_recommendations(preferences, ClampLimit(limit.n))
             IN  IF recommendations.exc # ""
                 THEN Response(400, recommendations.exc, <<>>, NoPlan)
                 ELSE Response(200, "", recommendations.value, NoPlan)

----------------------------------------------------------------------------
(* TourismRecommender.optimize_itinerary                                   *)

max_hours_per_day == 80

min_hours_per_day == 40

\* estimate_time, in tenths of an hour
estimate_time(att) ==
    LET categories == { Lower(c) : c \in att.categories_list }
    IN  IF "museums" \in categories \/ "parks" \in categories \/ "ruins" \in categories
        THEN 30
        ELSE IF "beaches" \in categories \/ "nature" \in categories THEN 20
        ELSE IF "temples" \in categories \/ "churches" \in categories THEN 15
        ELSE IF "shopping" \in categories \/ "markets" \in categories THEN 20
        ELSE 20

\* [a for a in self.attractions if a['id'] in attraction_ids]
SelectedAttractions(attraction_ids) ==
    SelectSeq(attractions, LAMBDA a : a.id \in attraction_ids)

\* only the empty selection is turned down
Validate_nodays(selected_attractions, total_days) ==
    IF selected_attractions = <<>> THEN "No attractions selected" ELSE ""

\* the two early returns: the error message, or "" to go on
Validate(selected_attractions, total_days) ==
    IF selected_attractions = <<>> THEN "No attractions selected"
    ELSE IF total_days <= 0 THEN "Invalid number of days"
    ELSE ""

\* an entry of all_attractions_with_time
WithTime(att) ==
    [id |-> att.id, name |-> att.place_name, city |-> att.city,
     country |-> att.country, rating |-> att.rating,
     review_count |-> att.review_count, categories |-> att.categories_list,
     estimated_time |-> estimate_time(att)]

RECURSIVE SumTime(_)
SumTime(list) ==
    IF list = <<>> THEN 0 ELSE Head(list).estimated_time + SumTime(Tail(list))

\* total_hours / total_days, kept as a fraction
Divide(total_hours, total_days) ==
    IF total_days = 0 THEN Raise("ZeroDivisionError")
    ELSE Return([num |-> total_hours, den |-> total_days])

\* hours >= avg_hours_per_day
AtLeastAvg(hours, avg) ==
    IF avg.den > 0 THEN hours * avg.den >= avg.num ELSE hours * avg.den <= avg.num

\* x put into a list sorted by city, after the entries of its city
RECURSIVE InsertByCity(_, _)
InsertByCity(sorted, x) ==
    IF sorted = <<>> THEN <<x>>
    ELSE IF CityRank(Head(sorted).city) <= CityRank(x.city)
         THEN <<Head(sorted)>> \o InsertByCity(Tail(sorted), x)
         ELSE <<x>> \o sorted

\* the list left in Store order
SortByCity_skipped(list) == list

\* the elements of list put one by one into the sorted list acc
RECURSIVE SortByCityInto(_, _)
SortByCityInto(list, acc) ==
    IF list = <<>> THEN acc
    ELSE SortByCityInto(Tail(list), InsertByCity(acc, Head(list)))

\* list.sort(key=city): ascending, equal cities keep their order
SortByCity(list) == SortByCityInto(list, <<>>)

\* the keys of city_groups, in the order of their first attraction
RECURSIVE CitiesVisited(_, _)
CitiesVisited(list, seen) ==
    IF list = <<>> THEN seen
    ELSE CitiesVisited(Tail(list),
             IF \E k \in 1..Len(seen) : seen[k] = Head(list).city
             THEN seen ELSE Append(seen, Head(list).city))

\* the day budget is checked only against the average
should_new_day_avg_only(st, att, total_days, avg) ==
    /\ st.current_day < total_days
    /\ AtLeastAvg(st.daily_hours, avg)
    /\ st.daily_attractions # <<>>
    /\ att.city \notin st.daily_cities
    /\ st.daily_hours >= min_hours_per_day

\* should_new_day, as set before an attraction is added
should_new_day(st, att, total_days, avg) ==
    IF st.daily_hours + att.estimated_time > max_hours_per_day
           /\ st.daily_attractions # <<>>
    THEN TRUE
    ELSE IF st.current_day < total_days /\ AtLeastAvg(st.daily_hours, avg)
                /\ st.daily_attractions # <<>>
         THEN att.city \notin st.daily_cities /\ st.daily_hours >= min_hours_per_day
         ELSE FALSE

\* a day is closed whenever should_new_day is set
ClosesDay_uncapped(st, att, total_days, avg) ==
    should_new_day(st, att, total_days, avg)

\* if should_new_day and current_day < total_days
ClosesDay(st, att, total_days, avg) ==
    should_new_day(st, att, total_days, avg) /\ st.current_day < total_days

\* a day-bucket of the itinerary; the hours are multiples of half an hour,
\* which round(daily_hours, 1) leaves as they are
DayBucket(st) ==
    [day |-> st.current_day, attractions |-> st.daily_attractions,
     cities |-> st.daily_cities, total_hours |-> st.daily_hours,
     total_attractions |-> Len(st.daily_attractions)]

\* one iteration of the loop over all_attractions_with_time
PackStep(st, att, total_days, avg) ==
    LET opened ==
            IF ClosesDay(st, att, total_days, avg)
            THEN [itinerary |-> Append(st.itinerary, DayBucket(st)),
                  current_day |-> st.current_day + 1,
                  daily_attractions |-> <<>>, daily_hours |-> 0,
                  daily_cities |-> {}]
            ELSE st
    IN  [opened EXCEPT !.daily_attractions = Append(@, att),
                       !.daily_hours = @ + att.estimated_time,
                       !.daily_cities = @ \cup {att.city}]

RECURSIVE PackLoop(_, _, _, _)
PackLoop(st, list, total_days, avg) ==
    IF list = <<>> THEN st
    ELSE PackLoop(PackStep(st, Head(list), total_days, avg), Tail(list),
                  total_days, avg)

\* the attractions of the last day are left out
Flush_dropped(st) == st.itinerary

\* the last day (or the remaining attractions) added after the loop
Flush(st) ==
    IF st.daily_attractions # <<>> THEN Append(st.itinerary, DayBucket(st))
    ELSE st.itinerary

optimize_itinerary(attraction_ids, total_days) ==
    LET selected_attractions == SelectedAttractions(attraction_ids)
        error == Validate(selected_attractions, total_days)
        all_attractions_with_time ==
            [i \in 1..Len(selected_attractions) |-> WithTime(selected_attractions[i])]
        avg_hours_per_day == Divide(SumTime(all_attractions_with_time), total_days)
        start == [itinerary |-> <<>>, current_day |-> 1, daily_attractions |-> <<>>,
                  daily_hours |-> 0, daily_cities |-> {}]
        final == PackLoop(start, SortByCity(all_attractions_with_time), total_days,
                          avg_hours_per_day.value)
    IN  IF error # "" THEN Return([error |-> error, plan |-> NoPlan])
        ELSE IF avg_hours_per_day.exc # "" THEN avg_hours_per_day
        ELSE Return([error |-> "",
                     plan |-> [itinerary |-> Flush(final),
                               total_days |-> total_days,
                               total_attractions |-> Len(selected_attractions),
                               cities_visited |->
                                   CitiesVisited(selected_attractions, <<>>)]])

\* the handler of /api/optimize
optimize(attraction_ids, total_days) ==
    LET result == optimize_itinerary(attraction_ids, total_days)
    IN  IF result.exc # "" THEN Response(400, result.exc, <<>>, NoPlan)
        ELSE Response(200, result.value.error, <<>>, result.value.plan)

----------------------------------------------------------------------------
(* Requests                                                                *)

\* the preference payloads of the model: each field missing, null, empty,
\* of the wrong type, or a usable value
Preferences ==
    [city : {Absent, PyStr("any"), PyStr("PARIS"), PyNum(7)},
     country : {Absent, None, PyStr("france")},
     categories : {Absent, PyList(<<>>), PyList(<<"Museums">>),
                   PyList(<<"food", "beaches">>), PyNum(5)},
     min_rating : {Absent, None, PyNum(40), PyNum(45), PyStr("4")},
     limit : {Absent, PyNum(-1), PyNum(2), PyNum(25)}]

NoPreferences ==
    [city |-> Absent, country |-> Absent, categories |-> Absent,
     min_rating |-> Absent, limit |-> Absent]

Request(op, preferences, attraction_ids, days) ==
    [op |-> op, preferences |-> preferences, attraction_ids |-> attraction_ids,
     days |-> days]

NoRequest == Request("none", NoPreferences, {}, 0)

----------------------------------------------------------------------------
(* The state machine                                                       *)

\* startup: the data set is loaded and the recommender built on it
Init ==
    /\ \E rows \in CsvFiles :
           /\ attractions = load_and_process_data(rows)
           /\ max_review_count = MaxReviewCount(load_and_process_data(rows))
    /\ request = NoRequest
    /\ response = NoResponse

\* a POST to /api/recommend is handled
Recommend ==
    /\ request.op = "none"
    /\ \E preferences \in Preferences :
           /\ request' = Request("recommend", preferences, {}, 0)
           /\ response' = recommend(preferences)
    /\ UNCHANGED <<attractions, max_review_count>>

\* a POST to /api/optimize is handled
Optimize ==
    /\ request.op = "none"
    /\ \E attraction_ids \in SUBSET (1..MaxSel), total_days \in -1..MaxDays :
           /\ request' = Request("optimize", NoPreferences, attraction_ids, total_days)
           /\ response' = optimize(attraction_ids, total_days)
    /\ UNCHANGED <<attractions, max_review_count>>

\* the response is sent and the request is over
Respond ==
    /\ request.op # "none"
    /\ request' = NoRequest
    /\ response' = NoResponse
    /\ UNCHANGED <<attractions, max_review_count>>

Next == Recommend \/ Optimize \/ Respond

Spec == Init /\ [][Next]_vars

----------------------------------------------------------------------------
(* Vocabulary of the properties                                            *)

IsRecommend == request.op = "recommend"

IsOptimize == request.op = "optimize"

StoreIds == { attractions[i].id : i \in 1..Len(attractions) }

\* the ids of the selection that name an attraction of the Store
ResolvedIds == request.attraction_ids \cap StoreIds

\* a plan was returned
PlanReturned == IsOptimize /\ response.status = 200 /\ response.error = ""

Itinerary == response.plan.itinerary

RECURSIVE Concat(_)
Concat(buckets) ==
    IF buckets = <<>> THEN <<>>
    ELSE Head(buckets).attractions \o Concat(Tail(buckets))

RECURSIVE SumAttractions(_)
SumAttractions(buckets) ==
    IF buckets = <<>> THEN 0
    ELSE Head(buckets).total_attractions + SumAttractions(Tail(buckets))

\* position of an attraction in the Store
StorePos(id) == CHOOSE k \in 1..Len(attractions) : attractions[k].id = id

Recs == response.recommendations

BreakdownSum(r) ==
    r.score_breakdown.base_score + r.score_breakdown.location_bonus
        + r.score_breakdown.category_bonus + r.score_breakdown.quality_bonus
        + r.score_breakdown.popularity_bonus

----------------------------------------------------------------------------
(* Properties of the planner                                               *)

\* C1: a selection that resolves to at least one attraction, planned over
\* total_days >= 1, yields a plan of at most total_days day-buckets.
C1_AtMostTotalDays ==
    (IsOptimize /\ ResolvedIds # {} /\ request.days >= 1)
        => PlanReturned /\ Len(Itinerary) <= request.days

\* C1, its case: every requested day is used and the last one is over 8 hours
C1_Witness ==
    /\ PlanReturned
    /\ Len(Itinerary) = request.days
    /\ Itinerary[Len(Itinerary)].total_hours > max_hours_per_day

\* C2: the total_attractions of the day-buckets add up to the number of
\* resolved attractions, each bucket counts its own attractions, and every
\* resolved attraction is in exactly one bucket, once; no other id appears.
C2_NoneLostNoneDuplicated ==
    PlanReturned =>
        /\ SumAttractions(Itinerary) = Cardinality(ResolvedIds)
        /\ \A d \in 1..Len(Itinerary) :
               Itinerary[d].total_attractions = Len(Itinerary[d].attractions)
        /\ \A id \in ResolvedIds :
               Cardinality({ <<d, k>> \in (1..Len(Itinerary)) \X (1..MaxSel) :
                               /\ k <= Len(Itinerary[d].attractions)
                               /\ Itinerary[d].attractions[k].id = id }) = 1
        /\ \A d \in 1..Len(Itinerary) :
               \A k \in 1..Len(Itinerary[d].attractions) :
                   Itinerary[d].attractions[k].id \in ResolvedIds

\* C2, its case: a plan of several days for a selection with an unknown id
C2_Witness ==
    /\ PlanReturned
    /\ Len(Itinerary) >= 2
    /\ request.attraction_ids \ StoreIds # {}
    /\ Cardinality(ResolvedIds) >= 3

\* C3 as stated: the handler answers with a failure value, "no attractions
\* selected" whenever the selection resolves to nothing and "invalid number of
\* days" whenever total_days <= 0.
C3_AsStated ==
    IsOptimize =>
        /\ response.status = 200
        /\ ResolvedIds = {} => response.error = "No attractions selected"
        /\ request.days <= 0 => response.error = "Invalid number of days"

\* C3: no fault leaves the planner (the division by total_days is never
\* reached with total_days = 0); a selection that resolves to nothing is
\* answered "no attractions selected" whatever total_days is, and
\* total_days <= 0 is answered "invalid number of days" when the selection
\* resolves to at least one attraction; no plan comes with either failure.
C3_FailureValues ==
    IsOptimize =>
        /\ response.status = 200
        /\ ResolvedIds = {} =>
               response.error = "No attractions selected" /\ response.plan = NoPlan
        /\ (ResolvedIds # {} /\ request.days <= 0) =>
               response.error = "Invalid number of days" /\ response.plan = NoPlan

\* C3, its case: zero days asked for a selection that resolves
C3_Witness ==
    /\ IsOptimize
    /\ request.days = 0
    /\ ResolvedIds # {}
    /\ response.error = "Invalid number of days"

\* C9: in a plan, every day-bucket whose day index is below total_days holds
\* at most 8 hours.
C9_OnlyLastDayOverMax ==
    PlanReturned =>
        \A d \in 1..Len(Itinerary) :
            Itinerary[d].day < request.days
                => Itinerary[d].total_hours <= max_hours_per_day

\* C9, its case: a closed day within 8 hours followed by a last day over it
C9_Witness ==
    /\ PlanReturned
    /\ Len(Itinerary) >= 2
    /\ Itinerary[1].total_hours <= max_hours_per_day
    /\ Itinerary[Len(Itinerary)].day = request.days
    /\ Itinerary[Len(Itinerary)].total_hours > max_hours_per_day

\* C10: the attractions of the day-buckets, read in day order, are the
\* resolved attractions ordered by city, those of one city in Store order;
\* the day indices are 1, 2, ..., k, no bucket is empty, and the days of a
\* city are consecutive.
C10_CityOrder ==
    PlanReturned =>
        LET all == Concat(Itinerary)
        IN  /\ Len(all) = Cardinality(ResolvedIds)
            /\ { all[i].id : i \in 1..Len(all) } = ResolvedIds
            /\ \A i, j \in 1..Len(all) :
                   i < j =>
                       /\ CityRank(all[i].city) <= CityRank(all[j].city)
                       /\ all[i].city = all[j].city
                              => StorePos(all[i].id) < StorePos(all[j].id)
            /\ \A i \in 1..Len(all) :
                   all[i].city = attractions[StorePos(all[i].id)].city
            /\ \A d \in 1..Len(Itinerary) :
                   Itinerary[d].day = d /\ Itinerary[d].attractions # <<>>
            /\ \A d1, d2, d3 \in 1..Len(Itinerary) :
                   \A c \in Itinerary[d1].cities \cap Itinerary[d3].cities :
                       (d1 < d2 /\ d2 < d3) => c \in Itinerary[d2].cities

\* C10, its case: the selection is not in city order in the Store, and one
\* city is spread over two days
C10_Witness ==
    /\ PlanReturned
    /\ Len(Itinerary) >= 2
    /\ Itinerary[1].cities \cap Itinerary[2].cities # {}
    /\ \E i, j \in 1..Len(attractions) :
           /\ i < j
           /\ {attractions[i].id, attractions[j].id} \subseteq ResolvedIds
           /\ CityRank(attractions[i].city) > CityRank(attractions[j].city)

----------------------------------------------------------------------------
(* Properties of the recommender                                           *)

\* the limit of the request, 10 when the payload has none
RequestedLimit == GetDefault(request.preferences.limit, PyNum(10)).n

\* the min_rating of the request, 0 when the payload has none
RequestedMinRating == GetDefault(request.preferences.min_rating, PyNum(0))

\* C4: recommend returns at most min(max(1, limit), 20) results, whatever the
\* integer limit, and none of them has score 0.
C4_LimitAndNoZeroScore ==
    IsRecommend =>
        /\ Len(Recs) <= Min(Max(1, RequestedLimit), 20)
        /\ \A i \in 1..Len(Recs) : Recs[i].score # 0

\* C4, its case: a limit above 20 on a Store with more than 20 attractions
\* that all score, cut to 20 results
C4_Witness ==
    /\ IsRecommend
    /\ RequestedLimit > 20
    /\ Len(attractions) > 20
    /\ request.preferences.city = Absent
    /\ RequestedMinRating = PyNum(0)
    /\ Len(Recs) = 20

\* C5: the results are in descending order of score, and results of equal
\* score are in the order their attractions have in the Store.
C5_SortedStable ==
    IsRecommend =>
        \A i, j \in 1..Len(Recs) :
            i < j =>
                /\ Recs[i].score >= Recs[j].score
                /\ Recs[i].score = Recs[j].score
                       => StorePos(Recs[i].id) < StorePos(Recs[j].id)

\* C5, its case: two results of equal score, and two results the sort put in
\* the opposite of their Store order
C5_Witness ==
    /\ IsRecommend
    /\ \E i, j \in 1..Len(Recs) : i < j /\ Recs[i].score = Recs[j].score
    /\ \E i, j \in 1..Len(Recs) :
           i < j /\ StorePos(Recs[i].id) > StorePos(Recs[j].id)

\* C6: for a preference set with a numeric min_rating (and categories, when
\* given, a list), every attraction of the Store rated below min_rating
\* scores exactly 0, and no result is rated below min_rating.
C6_RatingGate ==
    (IsRecommend /\ RequestedMinRating.t = "num") =>
        /\ request.preferences.categories.t # "num" =>
               \A k \in 1..Len(attractions) :
                   attractions[k].rating < RequestedMinRating.n =>
                       /\ calculate_score(attractions[k], request.preferences).exc = ""
                       /\ calculate_score(attractions[k], request.preferences).value.num
                              = 0
        /\ \A i \in 1..Len(Recs) : Recs[i].rating >= RequestedMinRating.n

\* C6, its case: an attraction below min_rating that matches the country and
\* the categories asked for is left out, while others are returned
C6_Witness ==
    /\ IsRecommend
    /\ RequestedMinRating = PyNum(40)
    /\ request.preferences.country = PyStr("france")
    /\ request.preferences.categories = PyList(<<"food", "beaches">>)
    /\ Len(Recs) > 0
    /\ \E k \in 1..Len(attractions) :
           /\ attractions[k].rating < 40
           /\ "beaches" \in attractions[k].categories_list
           /\ \A i \in 1..Len(Recs) : Recs[i].id # attractions[k].id

\* C7: for every result, the five components of score_breakdown add up to
\* the score when their sum is at most 100, and the score is 100 when their
\* sum is above 100.
C7_BreakdownSumsToScore ==
    IsRecommend =>
        \A i \in 1..Len(Recs) :
            /\ BreakdownSum(Recs[i]) <= 10000 => Recs[i].score = BreakdownSum(Recs[i])
            /\ BreakdownSum(Recs[i]) > 10000 => Recs[i].score = 10000

\* C7, its case: a result whose components exceed 100, and one with location
\* and category bonuses whose components stay below 100
C7_Witness ==
    /\ IsRecommend
    /\ \E i \in 1..Len(Recs) : BreakdownSum(Recs[i]) > 10000
    /\ \E i \in 1..Len(Recs) :
           /\ BreakdownSum(Recs[i]) < 10000
           /\ Recs[i].score_breakdown.location_bonus > 0
           /\ Recs[i].score_breakdown.category_bonus > 0

\* a field of the payload that is null, empty or of the wrong type
Malformed(field, v) ==
    CASE v.t = "absent" -> FALSE
      [] field \in {"city", "country"} -> ~(v.t = "str" /\ v.s # "")
      [] field = "categories" -> ~(v.t = "list" /\ v.l # <<>>)
      [] field = "min_rating" -> v.t # "num"

\* the payload without its malformed fields
WithoutMalformed(preferences) ==
    [city |-> IF Malformed("city", preferences.city) THEN Absent
              ELSE preferences.city,
     country |-> IF Malformed("country", preferences.country) THEN Absent
                 ELSE preferences.country,
     categories |-> IF Malformed("categories", preferences.categories) THEN Absent
                    ELSE preferences.categories,
     min_rating |-> IF Malformed("min_rating", preferences.min_rating) THEN Absent
                    ELSE preferences.min_rating,
     limit |-> preferences.limit]

\* C8 as stated: whatever fields of the payload are missing or malformed, no
\* fault leaves the recommender, and the results are those of the payload
\* without these fields.
C8_AsStated ==
    IsRecommend =>
        /\ response.status = 200
        /\ response = recommend(WithoutMalformed(request.preferences))

====
